---- MODULE Spec2Model ----
(***************************************************************************)
(* Model of the HuggingFace repository scraper (src/src/main.py and        *)
(* src/src/utils.py).                                                      *)
(*                                                                         *)
(* Five state machines share this module, one per part of the program:     *)
(*   SpecAlloc     allocate_to_workers, the generator that splits links    *)
(*   SpecSegment   segment_links, the sub-header parser                    *)
(*   SpecDiscover  get_repo_links / scrape_index_page, the pagination loop *)
(*   SpecTraverse  get_model / get_commit_infos, one repository traversal  *)
(*   Spec          the driver of main.py: cleanup of prior metadata,       *)
(*                 dedup, partition, worker threads and merge, over any    *)
(*                 number of runs of the script                            *)
(* Each specification leaves the variables of the other machines at their  *)
(* idle values.                                                            *)
(***************************************************************************)
EXTENDS Integers, Sequences, FiniteSets, TLC

VARIABLES
    alloc,      \* allocate_to_workers: [links, n, i, out]
    seg,        \* segment_links: [links, results]
    disc,       \* get_repo_links: locals, the link file, the pages served
    gm,         \* get_model: locals, requests issued, README files stored
    linkLog,    \* driver: output/links.txt, a sequence of link tuples
    metaFiles,  \* driver: output/meta<i>.csv, a sequence of rows per worker
    main,       \* driver: the main thread [pc, chunks, mergeIdx, merged]
    workers,    \* driver: per thread [pc, pos, cur]
    hist        \* driver: bookkeeping of the current run (ghost)

vars == <<alloc, seg, disc, gm, linkLog, metaFiles, main, workers, hist>>
driverVars == <<linkLog, metaFiles, main, workers, hist>>

(***************************************************************************)
(* Bounds of the model.                                                    *)
(***************************************************************************)
MaxItems == 4       \* allocate_to_workers: longest list of links
MaxN == 3           \* allocate_to_workers: largest worker count
MaxSegLinks == 2    \* segment_links: lines of the link file
MaxPages == 3       \* get_repo_links: catalog pages
MaxPerPage == 2     \* get_repo_links: listings per catalog page

(***************************************************************************)
(* Helpers.                                                                *)
(***************************************************************************)
Min(a, b) == IF a < b THEN a ELSE b

Range(s) == {s[i] : i \in 1..Len(s)}

RECURSIVE Pow10(_)
Pow10(k) == IF k = 0 THEN 1 ELSE 10 * Pow10(k - 1)

SeqsUpTo(S, k) == UNION {[1..m -> S] : m \in 0..k}

RECURSIVE Flatten(_)
Flatten(ss) == IF ss = << >> THEN << >> ELSE Head(ss) \o Flatten(Tail(ss))

RECURSIVE SumLen(_)
SumLen(ss) == IF ss = << >> THEN 0 ELSE Len(Head(ss)) + SumLen(Tail(ss))

\* Python's s[a:b] for 0 <= a <= b: indices are clamped to the sequence.
Slice(s, a, b) == SubSeq(s, Min(a, Len(s)) + 1, Min(b, Len(s)))

(***************************************************************************)
(* allocate_to_workers (utils.py 138-147).  A generator: every resumption  *)
(* yields the chunk of index i.                                            *)
(***************************************************************************)
AllocItems == {"a", "b"}

AllocIdle == [links |-> << >>, n |-> 0, i |-> 0, out |-> << >>]

\* faulty variant: the start index ignores the remainder r
chunk_start_no_remainder(d, r, i) == d * i

\* si = (d+1)*(i if i < r else r) + d*(0 if i < r else i - r)
chunk_start(d, r, i) ==
    (d + 1) * (IF i < r THEN i ELSE r) + d * (IF i < r THEN 0 ELSE i - r)

\* links[si:si+(d+1 if i < r else d)] for the zero-based chunk index i
chunk(links, n, i) ==
    LET d == Len(links) \div n
        r == Len(links) % n
        si == chunk_start(d, r, i)
    IN  Slice(links, si, si + (IF i < r THEN d + 1 ELSE d))

\* list(allocate_to_workers(links, n))
allocate_to_workers(links, n) == [i \in 1..n |-> chunk(links, n, i - 1)]

AllocInit ==
    \E links \in SeqsUpTo(AllocItems, MaxItems), n \in 1..MaxN :
        alloc = [links |-> links, n |-> n, i |-> 0, out |-> << >>]

AllocYield ==
    /\ alloc.i < alloc.n
    /\ alloc' = [alloc EXCEPT !.out = Append(@, chunk(alloc.links, alloc.n, alloc.i)),
                              !.i = @ + 1]
    /\ UNCHANGED <<seg, disc, gm, driverVars>>

(***************************************************************************)
(* segment_links (utils.py 88-135).                                        *)
(*                                                                         *)
(* A numeric token of the sub-header, such as 1.2k, is [m, dp, suf]: the   *)
(* digits m with dp of them after the decimal point, and the unit suffix.  *)
(* The sub-header text is the sequence of its numeric segments: each is    *)
(* "\t<token>\n\t\t\t", followed by the bullet or not.                     *)
(***************************************************************************)
Suffixes == {"", "k", "M"}

\* 2, 2k, 2M, 1.2k, 1.2M, 4.1k, 4.1M (a token with a decimal point and no
\* suffix is never rendered by the site; int() would raise on it)
Tokens ==
    {[m |-> 2, dp |-> 0, suf |-> s] : s \in Suffixes}
    \cup {[m |-> m, dp |-> 1, suf |-> s] : m \in {12, 41}, s \in {"k", "M"}}

Segment(tok, bullet) == [tok |-> tok, bullet |-> bullet]

\* The tuple scrape_index_page writes for one listing (utils.py 65-75): the
\* flags and the text come from the same card, so they agree.
LinkTuple(url, dl, lk, has_downloads, has_likes) ==
    [url |-> url,
     sub_header |-> (IF has_downloads THEN << Segment(dl, has_likes) >> ELSE << >>)
                    \o (IF has_likes THEN << Segment(lk, FALSE) >> ELSE << >>),
     has_downloads |-> has_downloads,
     has_likes |-> has_likes]

SegListings ==
    {LinkTuple("u1", dl, lk, hd, hl) :
        dl \in Tokens, lk \in Tokens, hd \in BOOLEAN, hl \in BOOLEAN}

\* re.search: the token of the first of the segments idx the pattern matches
first_match(sub_header, idx) ==
    sub_header[CHOOSE i \in idx : \A j \in idx : i <= j].tok

\* downloads_pat = \t(\d+\.)?\d+[kM]?\n\t\t\t<bullet>
downloads_pat(sub_header) ==
    first_match(sub_header, {i \in 1..Len(sub_header) : sub_header[i].bullet})
\* downloads_pat_without_likes = \t(\d+\.)?\d+[kM]?\n\t\t\t
downloads_pat_without_likes(sub_header) ==
    first_match(sub_header, 1..Len(sub_header))
\* likes_pat = \t(\d+\.)?\d+[kM]?\n\t\t\t(?!<bullet>)
likes_pat(sub_header) ==
    first_match(sub_header, {i \in 1..Len(sub_header) : ~sub_header[i].bullet})

\* The products of the model's tokens that IEEE-754 double multiplication
\* leaves just below the integer: float('4.1') * 1_000_000 = 4099999.999...
FloatShort == {<<41, 1, 1000000>>, <<82, 1, 1000000>>}

\* int(float(text) * mult) for the decimal text of tok
int_float_times(tok, mult) ==
    LET exact == (tok.m * mult) \div Pow10(tok.dp)
    IN  IF <<tok.m, tok.dp, mult>> \in FloatShort THEN exact - 1 ELSE exact

\* utils.py 113-118
parse_download_count(tok) ==
    IF tok.suf = "k" THEN int_float_times(tok, 1000)
    ELSE IF tok.suf = "M" THEN int_float_times(tok, 1000000)
    ELSE tok.m

\* utils.py 124-129: the M branch multiplies by 1_000
parse_likes_count(tok) ==
    IF tok.suf = "k" THEN int_float_times(tok, 1000)
    ELSE IF tok.suf = "M" THEN int_float_times(tok, 1000)
    ELSE tok.m

\* one iteration of the loop of utils.py 104-133
segment_link(link_tuple) ==
    LET sub_header == link_tuple.sub_header
        download_count ==
            IF link_tuple.has_downloads
            THEN parse_download_count(
                     IF ~link_tuple.has_likes
                     THEN downloads_pat_without_likes(sub_header)
                     ELSE downloads_pat(sub_header))
            ELSE 0
        likes_count ==
            IF link_tuple.has_likes
            THEN parse_likes_count(likes_pat(sub_header))
            ELSE 0
    IN  <<link_tuple.url, download_count, likes_count>>

\* segment_links on the lines of the link file
segment_links(lines) == [i \in 1..Len(lines) |-> segment_link(lines[i])]

SegIdle == [links |-> << >>, results |-> << >>]

SegInit ==
    \E links \in SeqsUpTo(SegListings, MaxSegLinks) :
        seg = [links |-> links, results |-> << >>]

SegStep ==
    /\ Len(seg.results) < Len(seg.links)
    /\ seg' = [seg EXCEPT !.results =
                   Append(@, segment_link(seg.links[Len(seg.results) + 1]))]
    /\ UNCHANGED <<alloc, disc, gm, driverVars>>

(***************************************************************************)
(* get_repo_links and scrape_index_page (utils.py 31-85).                  *)
(*                                                                         *)
(* A catalog page is what the site serves for it: its listings, in order,  *)
(* and whether it carries a "Next" anchor.  next_url is the number of the  *)
(* page to fetch, 0 for None.                                              *)
(***************************************************************************)
Urls == {"u1", "u2"}

Tok(m, dp, suf) == [m |-> m, dp |-> dp, suf |-> suf]

\* Listings of the catalog: each repository with 2 likes or with 1.2k likes.
Listings ==
    {LinkTuple(u, Tok(2, 0, ""), lk, FALSE, TRUE) :
        u \in Urls, lk \in {Tok(2, 0, ""), Tok(12, 1, "k")}}

CatalogPages ==
    {[links |-> l, has_next |-> b] : l \in SeqsUpTo(Listings, MaxPerPage), b \in BOOLEAN}

\* scrape_index_page: (links, next_url) for the page served as number url
scrape_index_page(url, page) ==
    <<page.links, IF page.has_next THEN url + 1 ELSE 0>>

DiscIdle ==
    [pc |-> "idle", next_url |-> 0, all_links |-> << >>, links |-> << >>,
     gathered_pages |-> 0, fpath |-> << >>, served |-> << >>, ret |-> << >>]

DiscInit ==
    disc = [DiscIdle EXCEPT !.pc = "loop", !.next_url = 1]

\* while next_url:
loop_continues(next_url) == next_url # 0

\* return links (utils.py 51): the links of the page read last
returned_links(all_links, links) == links

\* one iteration of the while loop (utils.py 42-49), on the page the site serves
DiscScrape ==
    /\ disc.pc = "loop"
    /\ loop_continues(disc.next_url)
    /\ \E page \in CatalogPages :
        /\ page.has_next => disc.gathered_pages + 1 < MaxPages
        /\ LET r == scrape_index_page(disc.next_url, page)
           IN  disc' = [disc EXCEPT
                   !.links = r[1],
                   !.next_url = r[2],
                   !.all_links = @ \o r[1],
                   !.gathered_pages = @ + 1,
                   !.fpath = @ \o r[1],
                   !.served = Append(@, page)]
    /\ UNCHANGED <<alloc, seg, gm, driverVars>>

\* the loop exit and the return statement (utils.py 51)
DiscReturn ==
    /\ disc.pc = "loop"
    /\ ~loop_continues(disc.next_url)
    /\ disc' = [disc EXCEPT !.pc = "returned",
                            !.ret = returned_links(disc.all_links, disc.links)]
    /\ UNCHANGED <<alloc, seg, gm, driverVars>>

\* get_repo_links(url, fpath) run to its end on the catalog `pages`: the
\* value it returns and the link file it leaves
RECURSIVE get_repo_links_from(_, _, _, _, _)
get_repo_links_from(pages, next_url, all_links, links, fpath) ==
    IF loop_continues(next_url) /\ next_url <= Len(pages)
    THEN LET r == scrape_index_page(next_url, pages[next_url])
         IN  get_repo_links_from(pages, r[2], all_links \o r[1], r[1], fpath \o r[1])
    ELSE [ret |-> returned_links(all_links, links), fpath |-> fpath]

get_repo_links(pages) == get_repo_links_from(pages, 1, << >>, << >>, << >>)

(***************************************************************************)
(* get_model and get_commit_infos (utils.py 176-309).                      *)
(*                                                                         *)
(* Python values that share a field with values of another type carry      *)
(* their type: a status code is PyInt, the result of isinstance is PyBool  *)
(* (printed True/False, never equal to a status code), a text is PyStr and *)
(* what get_commit_infos returns on success is a dict.                     *)
(***************************************************************************)
MaxCommitsPerPage == 2   \* commits one commit-history page lists in the model

CommitsPerPageDiv == 50  \* divmod(no_of_commits, 50)

PyInt(n) == [t |-> "int", n |-> n]
PyBool(b) == [t |-> "bool", b |-> b]
PyStr(x) == [t |-> "str", s |-> x]

\* isinstance(v, int): bool is a subclass of int
isinstance_int(v) == v.t \in {"int", "bool"}

Statuses == {200, 429, 500}
FailStatuses == Statuses \ {200}

\* the counts the badge of the tree page shows; -1: the badge is missing
Badges == {-1, 1, 50}

UserText == "alice"
ModelText == "bert"
TitleText == "bert<nl><nl><nl>"     \* the h1 text of a page without user

\* base_dictionary (utils.py 183-189)
base_dictionary(url) ==
    [repo_url |-> url, user |-> "", model_name |-> PyStr(""), tags |-> << >>,
     commit_history |-> << >>]

\* utils.py 201-213: user and model name from the two header positions
header_fields(user_found, name_found) ==
    LET user == IF user_found THEN UserText ELSE ""
    IN  IF name_found
        THEN [user |-> user, model_name |-> ModelText]
        ELSE [user |-> TitleText, model_name |-> user]

\* utils.py 216-219: the README directory of the model
readme_dir(user, model_name) ==
    IF user = TitleText THEN <<model_name>> ELSE <<user, model_name>>

\* utils.py 232-237
commit_pages_of(badge) == IF badge = -1 THEN 0 ELSE badge \div CommitsPerPageDiv

\* what get_commit_infos returns (utils.py 283-309)
commit_dict(url, commit_id, has_readme, dir) ==
    [t |-> "dict", commit_id |-> commit_id, commit_url |-> <<url, commit_id>>,
     files |-> IF has_readme THEN <<"README.md", "config.json">> ELSE <<"config.json">>,
     readme_path |-> IF has_readme THEN <<dir, commit_id>> ELSE << >>]

\* utils.py 264-265: commit_dict['commit_date'] = commit_dates[idx]
with_dates(commit_infos, commit_dates) ==
    [i \in 1..Len(commit_infos) |->
        [f \in DOMAIN commit_infos[i] \cup {"commit_date"} |->
            IF f = "commit_date" THEN commit_dates[i] ELSE commit_infos[i][f]]]

\* next(isinstance(commit_info, int) for commit_info in commit_infos): the
\* first value of the generator, a bool
next_isinstance(commit_infos) == PyBool(isinstance_int(commit_infos[1]))

\* utils.py 194-197
degraded_model_page(url, status) ==
    [base_dictionary(url) EXCEPT !.model_name = PyInt(status)]

\* utils.py 229-230 and 245-246
degraded_commit_history(url, status) ==
    [base_dictionary(url) EXCEPT !.commit_history = <<PyInt(status)>>]

\* utils.py 257-271: the end of get_model, once every commit was retrieved
commits_return(url, fields, commit_infos, commit_dates) ==
    IF \E i \in 1..Len(commit_infos) : isinstance_int(commit_infos[i])
    THEN [base_dictionary(url) EXCEPT !.commit_history = <<next_isinstance(commit_infos)>>]
    ELSE [base_dictionary(url) EXCEPT
             !.user = fields.user,
             !.model_name = PyStr(fields.model_name),
             !.tags = <<"tag">>,
             !.commit_history = with_dates(commit_infos, commit_dates)]

\* faulty variant: the list comprehension stops at the first failing commit
more_commits_until_failure(commit_ids, commit_infos) ==
    /\ Len(commit_infos) < Len(commit_ids)
    /\ \A i \in 1..Len(commit_infos) : ~isinstance_int(commit_infos[i])

\* utils.py 256: the list comprehension calls get_commit_infos for every commit
more_commits(commit_ids, commit_infos) == Len(commit_infos) < Len(commit_ids)

Request(kind, arg, status) == [kind |-> kind, arg |-> arg, status |-> status]

GmIdle ==
    [pc |-> "idle", url |-> "", fields |-> [user |-> "", model_name |-> ""],
     commit_pages |-> 0, p |-> 0, commit_ids |-> << >>, commit_dates |-> << >>,
     commit_infos |-> << >>, requests |-> << >>, readmes |-> {}, result |-> << >>]

GmInit == \E url \in Urls : gm = [GmIdle EXCEPT !.pc = "model_page", !.url = url]

\* utils.py 191-223
GmModelPage ==
    /\ gm.pc = "model_page"
    /\ \E status \in Statuses, user_found \in BOOLEAN, name_found \in BOOLEAN :
        LET reqs == Append(gm.requests, Request("model", 0, status))
        IN  IF status # 200
            THEN /\ ~user_found /\ ~name_found
                 /\ gm' = [gm EXCEPT !.pc = "done", !.requests = reqs,
                                     !.result = <<degraded_model_page(gm.url, status)>>]
            ELSE gm' = [gm EXCEPT !.pc = "tree_page", !.requests = reqs,
                                  !.fields = header_fields(user_found, name_found)]
    /\ UNCHANGED <<alloc, seg, disc, driverVars>>

\* utils.py 226-237
GmTreePage ==
    /\ gm.pc = "tree_page"
    /\ \E status \in Statuses, badge \in Badges :
        LET reqs == Append(gm.requests, Request("tree", 0, status))
        IN  IF status # 200
            THEN /\ badge = -1
                 /\ gm' = [gm EXCEPT !.pc = "done", !.requests = reqs,
                                     !.result = <<degraded_commit_history(gm.url, status)>>]
            ELSE gm' = [gm EXCEPT !.pc = "history", !.requests = reqs, !.p = 0,
                                  !.commit_pages = commit_pages_of(badge)]
    /\ UNCHANGED <<alloc, seg, disc, driverVars>>

\* utils.py 241-253: one commit-history page, listing k further commits
GmHistoryPage ==
    /\ gm.pc = "history"
    /\ gm.p <= gm.commit_pages
    /\ \E status \in Statuses, k \in 0..MaxCommitsPerPage :
        LET reqs == Append(gm.requests, Request("history", gm.p, status))
            n == Len(gm.commit_ids)
        IN  IF status # 200
            THEN /\ k = 0
                 /\ gm' = [gm EXCEPT !.pc = "done", !.requests = reqs,
                                     !.result = <<degraded_commit_history(gm.url, status)>>]
            ELSE gm' = [gm EXCEPT
                     !.requests = reqs,
                     !.p = @ + 1,
                     !.commit_ids = @ \o [i \in 1..k |-> n + i],
                     !.commit_dates = @ \o [i \in 1..k |-> 100 + n + i],
                     !.pc = IF gm.p + 1 > gm.commit_pages THEN "commits" ELSE "history"]
    /\ UNCHANGED <<alloc, seg, disc, driverVars>>

\* get_commit_infos for the next commit of the list comprehension
GmCommitInfos ==
    /\ gm.pc = "commits"
    /\ more_commits(gm.commit_ids, gm.commit_infos)
    /\ \E status \in Statuses, has_readme \in BOOLEAN, readme_status \in Statuses :
        LET id == gm.commit_ids[Len(gm.commit_infos) + 1]
            dir == readme_dir(gm.fields.user, gm.fields.model_name)
            req == Request("commit", id, status)
        IN  IF status # 200
            THEN /\ ~has_readme /\ readme_status = 200
                 /\ gm' = [gm EXCEPT !.requests = Append(@, req),
                                     !.commit_infos = Append(@, PyInt(status))]
            ELSE IF has_readme
            THEN gm' = [gm EXCEPT
                     !.requests = @ \o <<req, Request("readme", id, readme_status)>>,
                     !.readmes = @ \cup {<<dir, id>>},
                     !.commit_infos = Append(@, commit_dict(gm.url, id, TRUE, dir))]
            ELSE /\ readme_status = 200
                 /\ gm' = [gm EXCEPT
                     !.requests = Append(@, req),
                     !.commit_infos = Append(@, commit_dict(gm.url, id, FALSE, dir))]
    /\ UNCHANGED <<alloc, seg, disc, driverVars>>

\* utils.py 257-271
GmReturn ==
    /\ gm.pc = "commits"
    /\ ~more_commits(gm.commit_ids, gm.commit_infos)
    /\ gm' = [gm EXCEPT !.pc = "done",
                        !.result = <<commits_return(gm.url, gm.fields, gm.commit_infos,
                                                    gm.commit_dates)>>]
    /\ UNCHANGED <<alloc, seg, disc, driverVars>>

(***************************************************************************)
(* The driver (main.py 21-57) and the worker threads (main_parallel,       *)
(* utils.py 150-173), over successive runs of the script.                  *)
(***************************************************************************)
WORKERS == 2
MIN_LIKES == 3

MaxLinks == 2   \* listings of the catalog the driver discovers

W == 0..(WORKERS - 1)

\* the catalogs the driver may find: up to MaxLinks listings on one or two pages
DriverCatalogs ==
    UNION {{IF k = Len(l)
            THEN <<[links |-> l, has_next |-> FALSE]>>
            ELSE <<[links |-> SubSeq(l, 1, k), has_next |-> TRUE],
                   [links |-> SubSeq(l, k + 1, Len(l)), has_next |-> FALSE]>> :
               k \in 0..Len(l)} : l \in SeqsUpTo(Listings, MaxLinks)}

\* The values pandas.read_csv reads as missing: an empty user field of the
\* CSV comes back as NaN (so do a few texts such as "null").
NAValues == {"", "null", "NA", "NaN", "None", "nan", "n/a"}

\* meta['user'].notna() on the row as read back from the CSV
user_notna(row) == row.user \notin NAValues

\* commit_history.str.contains(r'\[4\d{2}\]'): the printed list holds "[4xx]"
\* only when it is the one-element list of a status code
contains_4xx(row) ==
    /\ Len(row.commit_history) = 1
    /\ row.commit_history[1].t = "int"
    /\ row.commit_history[1].n \in 400..499

\* faulty variant: only the status pattern removes a row
keep_row_pattern_only(row) == ~contains_4xx(row)

\* faulty variant: the cleanup keeps every row
keep_row_always(row) == TRUE

\* main.py 36-37: the rows the cleanup keeps
keep_row(row) == user_notna(row) /\ ~contains_4xx(row)

\* main.py 35-38 for one meta file
cleanup(rows) == SelectSeq(rows, keep_row)

\* faulty variant: no link is filtered out
not_scraped_yet_always(link, meta_links) == TRUE

\* main.py 44: l[0] not in meta_links
not_scraped_yet(link, meta_links) == link[1] \notin meta_links

\* main.py 40-44
filter_links(links, meta_links) ==
    SelectSeq(links, LAMBDA l : not_scraped_yet(l, meta_links))

\* faulty variant: every thread is handed the whole list
worker_links_all(links, i) == links

\* main.py 50-53: the chunk handed to thread i
worker_links(links, i) == allocate_to_workers(links, WORKERS)[i + 1]

\* the dictionaries get_model can return for url: one per return statement,
\* on some response of the site
DriverInfos(url, dir) ==
    {<<commit_dict(url, 1, TRUE, dir)>>,
     <<PyInt(429)>>,
     <<commit_dict(url, 1, FALSE, dir), PyInt(500)>>}

get_model_results(url) ==
    {degraded_model_page(url, st) : st \in FailStatuses}
    \cup {degraded_commit_history(url, st) : st \in FailStatuses}
    \cup UNION {{commits_return(url, header_fields(uf, TRUE), ci,
                                 [i \in 1..Len(ci) |-> 100 + i]) :
                      ci \in DriverInfos(url, readme_dir(header_fields(uf, TRUE).user,
                                                         ModelText))} :
                  uf \in BOOLEAN}

\* utils.py 165-173: the row appended to the worker's meta file
meta_row(model_dict, download_count, like_count) ==
    [f \in DOMAIN model_dict \cup {"downloads", "likes"} |->
        IF f = "downloads" THEN download_count
        ELSE IF f = "likes" THEN like_count
        ELSE model_dict[f]]

NoFile == [exists |-> FALSE, rows |-> << >>]

AllRows(files) == UNION {Range(files[i].rows) : i \in W}

MainIdle == [pc |-> "off", chunks |-> [i \in W |-> << >>],
             mergeIdx |-> 0, merged |-> << >>]
WorkersIdle == [i \in W |-> [pc |-> "done", pos |-> 1]]
\* rerun: the link file existed when the run started; removed: the status
\* codes of the rows its cleanup removed; calls: its get_model calls per URL
HistIdle == [rerun |-> FALSE, removed |-> {}, calls |-> [u \in Urls |-> 0]]

\* the status code of a row that holds one in place of the commit history
status_codes(rows) ==
    {r.commit_history[1].n :
        r \in {x \in rows : Len(x.commit_history) = 1 /\ x.commit_history[1].t = "int"}}

DriverInit ==
    /\ linkLog = NoFile
    /\ metaFiles = [i \in W |-> NoFile]
    /\ main = MainIdle
    /\ workers = WorkersIdle
    /\ hist = HistIdle

\* One start of the script, up to the start of the threads (main.py 23-53).
\* The process of the run before has ended: its main thread and its threads.
RunStart ==
    /\ main.pc \in {"off", "exited", "crashed"}
    /\ \A i \in W : workers[i].pc = "done"
    /\ \E pages \in (IF linkLog.exists THEN {<< >>} ELSE DriverCatalogs) :
        LET log == IF linkLog.exists THEN linkLog
                   ELSE [exists |-> TRUE, rows |-> get_repo_links(pages).fpath]
            links == segment_links(log.rows)
            cleaned == [i \in W |-> [metaFiles[i] EXCEPT !.rows = cleanup(@)]]
            meta_links == {r.repo_url : r \in AllRows(cleaned)}
            todo == filter_links(links, meta_links)
        IN  /\ linkLog' = log
            /\ metaFiles' = cleaned
            /\ main' = [pc |-> "merge",
                        chunks |-> [i \in W |-> worker_links(todo, i)],
                        mergeIdx |-> 0, merged |-> << >>]
            /\ workers' = [i \in W |-> [pc |-> "loop", pos |-> 1]]
            /\ hist' = [rerun |-> linkLog.exists,
                        removed |-> status_codes(AllRows(metaFiles) \ AllRows(cleaned)),
                        calls |-> [u \in Urls |-> 0]]
    /\ UNCHANGED <<alloc, seg, disc, gm>>

CurLink(i) == main.chunks[i][workers[i].pos]

\* utils.py 159-161: a link below the like threshold is skipped
WorkerSkip(i) ==
    /\ workers[i].pc = "loop"
    /\ workers[i].pos <= Len(main.chunks[i])
    /\ CurLink(i)[3] < MIN_LIKES
    /\ workers' = [workers EXCEPT ![i].pos = @ + 1]
    /\ UNCHANGED <<linkLog, metaFiles, main, hist>>
    /\ UNCHANGED <<alloc, seg, disc, gm>>

\* utils.py 162: get_model is called
WorkerGetModel(i) ==
    /\ workers[i].pc = "loop"
    /\ workers[i].pos <= Len(main.chunks[i])
    /\ ~(CurLink(i)[3] < MIN_LIKES)
    /\ workers' = [workers EXCEPT ![i].pc = "get_model"]
    /\ hist' = [hist EXCEPT !.calls[CurLink(i)[1]] = @ + 1]
    /\ UNCHANGED <<linkLog, metaFiles, main>>
    /\ UNCHANGED <<alloc, seg, disc, gm>>

\* utils.py 162-173: get_model returns and its row is appended
WorkerAppend(i) ==
    /\ workers[i].pc = "get_model"
    /\ \E model_dict \in get_model_results(CurLink(i)[1]) :
        LET row == meta_row(model_dict, CurLink(i)[2], CurLink(i)[3])
        IN  metaFiles' = [metaFiles EXCEPT ![i] =
                             [exists |-> TRUE, rows |-> Append(@.rows, row)]]
    /\ workers' = [workers EXCEPT ![i] = [pc |-> "loop", pos |-> @.pos + 1]]
    /\ UNCHANGED <<linkLog, main, hist>>
    /\ UNCHANGED <<alloc, seg, disc, gm>>

\* the end of the for loop of main_parallel: the thread ends
WorkerExit(i) ==
    /\ workers[i].pc = "loop"
    /\ workers[i].pos > Len(main.chunks[i])
    /\ workers' = [workers EXCEPT ![i].pc = "done"]
    /\ UNCHANGED <<linkLog, metaFiles, main, hist>>
    /\ UNCHANGED <<alloc, seg, disc, gm>>

\* main.py 56: load_meta of the next meta file, a missing file raises; nothing
\* waits for the threads started at main.py 53 (the reshaping of the rows by
\* load_meta is left out: merged holds the rows read)
MainLoadMeta ==
    /\ main.pc = "merge"
    /\ main.mergeIdx < WORKERS
    /\ main' = IF metaFiles[main.mergeIdx].exists
               THEN [main EXCEPT !.mergeIdx = @ + 1,
                                 !.merged = @ \o metaFiles[main.mergeIdx].rows]
               ELSE [main EXCEPT !.pc = "crashed"]
    /\ UNCHANGED <<linkLog, metaFiles, workers, hist>>
    /\ UNCHANGED <<alloc, seg, disc, gm>>

\* main.py 56-57: the tables are concatenated and written
MainWrite ==
    /\ main.pc = "merge"
    /\ main.mergeIdx = WORKERS
    /\ main' = [main EXCEPT !.pc = "exited"]
    /\ UNCHANGED <<linkLog, metaFiles, workers, hist>>
    /\ UNCHANGED <<alloc, seg, disc, gm>>

(***************************************************************************)
(* The specifications.                                                     *)
(***************************************************************************)
DriverIdle ==
    /\ linkLog = NoFile
    /\ metaFiles = [i \in W |-> NoFile]
    /\ main = MainIdle
    /\ workers = WorkersIdle
    /\ hist = HistIdle


AllocNext == AllocYield

InitAlloc ==
    /\ AllocInit
    /\ seg = SegIdle /\ disc = DiscIdle /\ gm = GmIdle /\ DriverIdle

SpecAlloc ==
    /\ InitAlloc
    /\ [][AllocNext]_vars

SegNext == SegStep

InitSegment ==
    /\ SegInit
    /\ alloc = AllocIdle /\ disc = DiscIdle /\ gm = GmIdle /\ DriverIdle

SpecSegment ==
    /\ InitSegment
    /\ [][SegNext]_vars

DiscNext ==
    \/ DiscScrape
    \/ DiscReturn

InitDiscover ==
    /\ DiscInit
    /\ alloc = AllocIdle /\ seg = SegIdle /\ gm = GmIdle /\ DriverIdle

SpecDiscover ==
    /\ InitDiscover
    /\ [][DiscNext]_vars

GmNext ==
    \/ GmModelPage
    \/ GmTreePage
    \/ GmHistoryPage
    \/ GmCommitInfos
    \/ GmReturn

InitTraverse ==
    /\ GmInit
    /\ alloc = AllocIdle /\ seg = SegIdle /\ disc = DiscIdle /\ DriverIdle

SpecTraverse ==
    /\ InitTraverse
    /\ [][GmNext]_vars

Next ==
    \/ RunStart
    \/ \E i \in W : WorkerSkip(i)
    \/ \E i \in W : WorkerGetModel(i)
    \/ \E i \in W : WorkerAppend(i)
    \/ \E i \in W : WorkerExit(i)
    \/ MainLoadMeta
    \/ MainWrite

Init ==
    /\ DriverInit
    /\ alloc = AllocIdle /\ seg = SegIdle /\ disc = DiscIdle /\ gm = GmIdle

Spec == Init /\ [][Next]_vars

(***************************************************************************)
(* Claims about allocate_to_workers (SpecAlloc).                           *)
(***************************************************************************)
AllocFinished == alloc.n >= 1 /\ alloc.i = alloc.n

\* C1: for every list of L >= 0 items and every worker count N >= 1,
\* allocate_to_workers yields exactly N groups whose sizes sum to L and
\* differ by at most 1, whose concatenation in group order is the list, and
\* exactly the first (L mod N) groups hold the extra item.
C1_Partition ==
    AllocFinished =>
        LET L == Len(alloc.links)
            N == alloc.n
            out == alloc.out
        IN  /\ Len(out) = N
            /\ SumLen(out) = L
            /\ \A i, j \in 1..N : Len(out[i]) - Len(out[j]) <= 1
            /\ Flatten(out) = alloc.links
            /\ \A i \in 1..N : Len(out[i]) = (L \div N) + (IF i <= L % N THEN 1 ELSE 0)
            /\ out = allocate_to_workers(alloc.links, N)

\* the generator has run to its end on a list that does not divide evenly
C1_Witness ==
    /\ AllocFinished
    /\ alloc.n = MaxN
    /\ Len(alloc.links) = MaxItems
    /\ Len(alloc.links) % alloc.n # 0

(***************************************************************************)
(* Claims about segment_links (SpecSegment).                               *)
(***************************************************************************)
UnitFactor(suf) == IF suf = "k" THEN 1000 ELSE IF suf = "M" THEN 1000000 ELSE 1

\* trunc(v * factor) for the decimal value v of the token
Normalized(tok) == (tok.m * UnitFactor(tok.suf)) \div Pow10(tok.dp)

\* the tokens of a listing: downloads first, likes last
DownloadsToken(link_tuple) == link_tuple.sub_header[1].tok
LikesToken(link_tuple) == link_tuple.sub_header[Len(link_tuple.sub_header)].tok

\* C8: unit normalization is the same for both counts: the download count and
\* the like count each equal v with no suffix, trunc(v * 1,000) with suffix k
\* and trunc(v * 1,000,000) with suffix M; a count whose flag is false is 0.
C8_UnitNormalization ==
    \A i \in 1..Len(seg.results) :
        LET l == seg.links[i]
        IN  /\ seg.results[i][2] =
                   (IF l.has_downloads THEN Normalized(DownloadsToken(l)) ELSE 0)
            /\ seg.results[i][3] =
                   (IF l.has_likes THEN Normalized(LikesToken(l)) ELSE 0)

(***************************************************************************)
(* Claims about get_repo_links (SpecDiscover).                             *)
(***************************************************************************)
ServedLinks == Flatten([i \in 1..Len(disc.served) |-> disc.served[i].links])

\* C5: get_repo_links stops at the first page without a Next link and returns
\* the listing records of every visited page, concatenated in page order (the
\* records it appends to the link log).
C5_ReturnsEveryPage ==
    disc.pc = "returned" =>
        /\ ~disc.served[Len(disc.served)].has_next
        /\ \A i \in 1..(Len(disc.served) - 1) : disc.served[i].has_next
        /\ disc.fpath = ServedLinks
        /\ disc.ret = ServedLinks

(***************************************************************************)
(* Claims about get_model (SpecTraverse).                                  *)
(***************************************************************************)
Reqs == gm.requests

PageKinds == {"model", "tree", "history"}

FailedAt(a) == Reqs[a].status # 200

\* C3: whenever a commit-detail retrieval returns a non-200 status code s,
\* get_model returns a degraded record (empty user, repo_url set) whose
\* commit_history holds exactly that status code, whichever position the
\* failing commit has.
C3_CommitStatusReturned ==
    (gm.pc = "done" /\ \E a \in 1..Len(Reqs) : Reqs[a].kind = "commit" /\ FailedAt(a)) =>
        /\ gm.result[1].user = ""
        /\ gm.result[1].repo_url = gm.url
        /\ \E a \in 1..Len(Reqs) :
            /\ Reqs[a].kind = "commit" /\ FailedAt(a)
            /\ gm.result[1].commit_history = <<PyInt(Reqs[a].status)>>

\* C4 as stated: once a fetch of the traversal returns non-200, every
\* downstream step is skipped; after the commit-detail fetch of commit i fails
\* no commit page is fetched and no README is downloaded for a later commit.
C4_NothingAfterFailure ==
    \A a, b \in 1..Len(Reqs) :
        (a < b /\ Reqs[a].kind \in PageKinds \cup {"commit"} /\ FailedAt(a)) =>
            Reqs[b].kind \notin {"commit", "readme"}

\* C4, amended: a failing model, tree or history page ends the traversal at
\* once (no later request, no README stored); a failing commit-detail fetch
\* does not: every commit of the list is still retrieved and the README of
\* every commit that answers 200 and has one is stored, only the returned
\* record is degraded.
C4_PageFailureStopsCommitFailureDoesNot ==
    /\ \A a \in 1..Len(Reqs) :
        (Reqs[a].kind \in PageKinds /\ FailedAt(a)) =>
            /\ a = Len(Reqs)
            /\ gm.pc = "done"
            /\ gm.readmes = {}
    /\ (gm.pc = "done" /\ \A a \in 1..Len(Reqs) : Reqs[a].kind \in PageKinds => ~FailedAt(a)) =>
            /\ Len(gm.commit_infos) = Len(gm.commit_ids)
            /\ \A i \in 1..Len(gm.commit_ids) :
                \E a \in 1..Len(Reqs) :
                    Reqs[a].kind = "commit" /\ Reqs[a].arg = gm.commit_ids[i]
            /\ gm.readmes =
                   {gm.commit_infos[i].readme_path :
                       i \in {j \in 1..Len(gm.commit_infos) :
                                 /\ ~isinstance_int(gm.commit_infos[j])
                                 /\ gm.commit_infos[j].readme_path # << >>}}

\* the first commit failed, a later commit was retrieved and its README stored
C4_Witness ==
    /\ gm.pc = "done"
    /\ \E a, b \in 1..Len(Reqs) :
        /\ a < b
        /\ Reqs[a].kind = "commit" /\ FailedAt(a)
        /\ Reqs[b].kind = "readme"
    /\ gm.readmes # {}
    /\ gm.result[1].commit_history = <<PyBool(TRUE)>>

(***************************************************************************)
(* Claims about the driver (Spec).                                         *)
(*                                                                         *)
(* A step that starts a run takes the main thread to "merge": before it    *)
(* the meta files hold the rows of the earlier runs, after it the rows the *)
(* cleanup kept, and main.chunks holds the new work list.                  *)
(***************************************************************************)
SegLog == segment_links(linkLog.rows)

WorkList == Flatten([i \in 1..WORKERS |-> main.chunks[i - 1]])

InWork(url) == \E k \in 1..Len(WorkList) : WorkList[k][1] = url

WorkersDone == \A i \in W : workers[i].pc = "done"

RunOver == main.pc \in {"exited", "crashed"} /\ WorkersDone

RunStarts == main.pc # "merge" /\ main'.pc = "merge"

StatusRow(row, codes) ==
    /\ row.user = ""
    /\ Len(row.commit_history) = 1
    /\ row.commit_history[1].t = "int"
    /\ row.commit_history[1].n \in codes

Successful(row) ==
    /\ row.model_name.t = "str"
    /\ \A i \in 1..Len(row.commit_history) : row.commit_history[i].t = "dict"

HasRow(files, url) == \E r \in AllRows(files) : r.repo_url = url

\* when the run is over, every link of its work list that passes the like
\* threshold has been traversed
LikedWorkTraversed ==
    RunOver =>
        \A k \in 1..Len(WorkList) :
            WorkList[k][3] >= MIN_LIKES => hist.calls[WorkList[k][1]] >= 1

\* C2: the merge step (load_meta of the per-worker files) starts only after
\* every worker's traversal loop has finished, so the merged table holds
\* every row a worker appends during the run.
C2_MergeAfterWorkers ==
    /\ (main.pc \in {"exited", "crashed"} \/ main.mergeIdx > 0) => WorkersDone
    /\ main.pc = "exited" =>
           main.merged = Flatten([i \in 1..WORKERS |-> metaFiles[i - 1].rows])

\* C7 as stated: a prior row with empty user and commit_history = [4xx] is
\* removed before the processed URLs are computed, so its URL stays in the
\* work list and is traversed again in this run if it passes the threshold.
C7_Retry4xx ==
    /\ [][RunStarts =>
            \A row \in AllRows(metaFiles) :
                StatusRow(row, 400..499) =>
                    /\ row \notin AllRows(metaFiles')
                    /\ InWork(row.repo_url)']_vars
    /\ []LikedWorkTraversed

\* C7, amended: the row is removed; its URL stays in the work list, and is
\* traversed again if it passes the threshold, unless another row of the same
\* URL is kept: then the URL is filtered out.
C7_Retry4xxUnlessOtherRowKept ==
    /\ [][RunStarts =>
            \A row \in AllRows(metaFiles) :
                StatusRow(row, 400..499) =>
                    /\ row \notin AllRows(metaFiles')
                    /\ InWork(row.repo_url)' <=> ~HasRow(metaFiles', row.repo_url)]_vars
    /\ []LikedWorkTraversed

\* the cleanup of this run removed a [429] row and the run traversed its URL
\* again (the link log has this one link)
C7_Witness ==
    /\ hist.rerun
    /\ RunOver
    /\ hist.removed = {429}
    /\ Len(linkLog.rows) = 1
    /\ hist.calls[linkLog.rows[1].url] = 1

\* C10 as stated: a degraded row of a 5xx response is kept by the cleanup of
\* the next run, so its URL is excluded from the work list and is not
\* traversed again.
C10_5xxKept ==
    [][RunStarts =>
        \A row \in AllRows(metaFiles) :
            StatusRow(row, 500..599) =>
                /\ row \in AllRows(metaFiles')
                /\ ~InWork(row.repo_url)']_vars

\* C10, amended: the row has an empty user, so the cleanup of the next run
\* removes it as it removes a 4xx row, and its URL is traversed again (unless
\* another row of the same URL is kept).
C10_5xxRemovedAndRetried ==
    /\ [][RunStarts =>
            \A row \in AllRows(metaFiles) :
                StatusRow(row, 500..599) =>
                    /\ row \notin AllRows(metaFiles')
                    /\ InWork(row.repo_url)' <=> ~HasRow(metaFiles', row.repo_url)]_vars
    /\ []LikedWorkTraversed

\* the cleanup of this run removed a [500] row and the run traversed its URL
\* again (the link log has this one link)
C10_Witness ==
    /\ hist.rerun
    /\ RunOver
    /\ hist.removed = {500}
    /\ Len(linkLog.rows) = 1
    /\ hist.calls[linkLog.rows[1].url] = 1

\* every link of the log that passes the like threshold has a row
EveryLikedUrlHasRow ==
    \A k \in 1..Len(SegLog) :
        SegLog[k][3] >= MIN_LIKES => HasRow(metaFiles, SegLog[k][1])

NoLikedWork == \A k \in 1..Len(WorkList) : WorkList[k][3] < MIN_LIKES

NoCalls == \A u \in Urls : hist.calls[u] = 0

RowCount(url) ==
    Cardinality(UNION {{<<i, k>> : k \in {j \in 1..Len(metaFiles[i].rows) :
                                            metaFiles[i].rows[j].repo_url = url}} :
                       i \in W})

OneTraversalOneRow ==
    /\ \A u \in Urls : hist.calls[u] <= 1 /\ RowCount(u) <= 1
    /\ \A i, j \in W :
        (i # j /\ workers[i].pc = "get_model" /\ workers[j].pc = "get_model") =>
            CurLink(i)[1] # CurLink(j)[1]

LinkLogDistinct ==
    \A i, j \in 1..Len(linkLog.rows) :
        i # j => linkLog.rows[i].url # linkLog.rows[j].url

\* C9 as stated: each repository URL is traversed by at most one worker per
\* run and has at most one row across the meta files; no two workers process
\* the same repository concurrently.
C9_OneTraversalOneRow == OneTraversalOneRow

\* C9, amended: ... provided the link log lists every repository URL once.
C9_OneTraversalOneRowIfDistinct == LinkLogDistinct => OneTraversalOneRow

\* a later run, two distinct links: both are traversed again, concurrently
C9_Witness ==
    /\ LinkLogDistinct
    /\ Len(linkLog.rows) = 2
    /\ hist.rerun
    /\ \A i \in W : workers[i].pc = "get_model"
    /\ \A u \in Urls : hist.calls[u] = 1

====
